---------------------------- MODULE Spec2Model ----------------------------
(***************************************************************************)
(* Model of the loan calculator component of src/src/App.tsx: the three    *)
(* input fields, the calculateLoan pass that the effect runs after every   *)
(* change of an input, and the four outputs it sets.                       *)
(*                                                                         *)
(* Texts are sequences of one-character strings.  Numbers are the values   *)
(* of JavaScript's number type: NaN, +Infinity, -Infinity, or a finite     *)
(* value n/d * 10^e.  Finite arithmetic is exact (the rounding of a double *)
(* to 53 bits is not modelled); what is modelled of the double's range is  *)
(* overflow to Infinity, the absorption of an addend too small to change   *)
(* the sum, and the IEEE rules for NaN and the infinities.  The sign of    *)
(* zero is not modelled.                                                   *)
(***************************************************************************)
EXTENDS Integers, Sequences, FiniteSets, TLC

-----------------------------------------------------------------------------
(* Bounds *)

\* The longest loan term, in months, that an edit of the term field enters.
MaxMonths == 3

\* The longest text that a change event of the loan-amount field carries
\* when the texts are enumerated (EditSpec).
MaxTextLen == 5

-----------------------------------------------------------------------------
(* The number type *)

NaN == [k |-> "nan", n |-> 0, d |-> 1, e |-> 0]
PosInf == [k |-> "inf", n |-> 1, d |-> 1, e |-> 0]
NegInf == [k |-> "inf", n |-> -1, d |-> 1, e |-> 0]
Zero == [k |-> "fin", n |-> 0, d |-> 1, e |-> 0]

Abs(i) == IF i < 0 THEN -i ELSE i

Sgn(i) == IF i < 0 THEN -1 ELSE IF i > 0 THEN 1 ELSE 0

Inf(s) == IF s < 0 THEN NegInf ELSE PosInf

RECURSIVE GCD(_, _)
GCD(a, b) == IF b = 0 THEN a ELSE GCD(b, a % b)

RECURSIVE Pow10(_)
Pow10(i) == IF i = 0 THEN 1 ELSE 10 * Pow10(i - 1)

\* The number of decimal digits of a positive integer.
RECURSIVE Dig(_)
Dig(i) == IF i < 10 THEN 1 ELSE 1 + Dig(i \div 10)

\* Move the factors 2 and 5 of the denominator into the decimal exponent.
RECURSIVE Clear25(_, _, _)
Clear25(n, d, e) ==
    IF d % 2 = 0 THEN Clear25(n * 5, d \div 2, e - 1)
    ELSE IF d % 5 = 0 THEN Clear25(n * 2, d \div 5, e - 1)
    ELSE <<n, d, e>>

\* Move the factors 10 of the numerator into the decimal exponent.
RECURSIVE Strip10(_, _, _)
Strip10(n, d, e) ==
    IF n % 10 = 0 THEN Strip10(n \div 10, d, e + 1) ELSE <<n, d, e>>

\* An upper estimate of the decimal order of a finite non-zero value:
\* |x| < 10^Order(x), and |x| >= 10^(Order(x) - 2).
Order(x) == Dig(Abs(x.n)) - Dig(x.d) + x.e + 1

\* The double nearest to n/d * 10^e, in canonical form (n/d in lowest terms,
\* d coprime to 10, n not a multiple of 10): a value of 10^309 or more
\* exceeds the largest double (about 1.8 * 10^308) and becomes an infinity.
Num(n, d, e) ==
    IF n = 0 THEN Zero
    ELSE LET c == Clear25(n, d, e)
             g == GCD(Abs(c[1]), c[2])
             t == Strip10(c[1] \div g, c[2] \div g, c[3])
             x == [k |-> "fin", n |-> t[1], d |-> t[2], e |-> t[3]]
         IN  IF Order(x) - 2 >= 309 THEN Inf(t[1]) ELSE x

FromInt(i) == Num(i, 1, 0)

IsNaN(x) == x.k = "nan"
IsFinite(x) == x.k = "fin"
IsZero(x) == x.k = "fin" /\ x.n = 0

Neg(x) == [x EXCEPT !.n = -x.n]

\* x * y
Mul(x, y) ==
    IF IsNaN(x) \/ IsNaN(y) THEN NaN
    ELSE IF x.k = "inf" \/ y.k = "inf"
         THEN IF IsZero(x) \/ IsZero(y) THEN NaN ELSE Inf(Sgn(x.n) * Sgn(y.n))
    ELSE IF x.n = 0 \/ y.n = 0 THEN Zero
    ELSE LET g1 == GCD(Abs(x.n), y.d)
             g2 == GCD(Abs(y.n), x.d)
         IN  Num((x.n \div g1) * (y.n \div g2), (x.d \div g2) * (y.d \div g1), x.e + y.e)

\* x / y
Div(x, y) ==
    IF IsNaN(x) \/ IsNaN(y) THEN NaN
    ELSE IF x.k = "inf"
         THEN IF y.k = "inf" THEN NaN
              ELSE Inf(Sgn(x.n) * (IF y.n < 0 THEN -1 ELSE 1))
    ELSE IF y.k = "inf" THEN Zero
    ELSE IF y.n = 0 THEN (IF x.n = 0 THEN NaN ELSE Inf(Sgn(x.n)))
    ELSE Mul(x, [k |-> "fin", n |-> Sgn(y.n) * y.d, d |-> Abs(y.n), e |-> -y.e])

\* x + y.  An addend more than 10^18 times smaller than the other is lost
\* (a double carries 53 bits, less than 16 decimal digits).
Add(x, y) ==
    IF IsNaN(x) \/ IsNaN(y) THEN NaN
    ELSE IF x.k = "inf"
         THEN IF y.k = "inf" /\ y.n # x.n THEN NaN ELSE x
    ELSE IF y.k = "inf" THEN y
    ELSE IF x.n = 0 THEN y
    ELSE IF y.n = 0 THEN x
    ELSE IF Order(x) - Order(y) >= 20 THEN x
    ELSE IF Order(y) - Order(x) >= 20 THEN y
    ELSE LET e == IF x.e < y.e THEN x.e ELSE y.e
             g == GCD(x.d, y.d)
         IN  Num(x.n * Pow10(x.e - e) * (y.d \div g) + y.n * Pow10(y.e - e) * (x.d \div g),
                 (x.d \div g) * y.d, e)

\* x - y
Sub(x, y) == Add(x, Neg(y))

\* Math.pow(x, i) for an integer i >= 1
RECURSIVE Power(_, _)
Power(x, i) == IF i = 1 THEN x ELSE Mul(Power(x, i - 1), x)

\* x < y, x <= y, x > y: false when either side is NaN
Lt(x, y) == ~IsNaN(x) /\ ~IsNaN(y) /\ x # y /\ Sub(x, y).n < 0
Le(x, y) == ~IsNaN(x) /\ ~IsNaN(y) /\ (x = y \/ Sub(x, y).n < 0)
Gt(x, y) == Lt(y, x)

\* !x
Falsy(x) == IsNaN(x) \/ IsZero(x)

\* Math.max(0, x)
Max0(x) == IF IsNaN(x) THEN NaN ELSE IF Lt(x, Zero) THEN Zero ELSE x

-----------------------------------------------------------------------------
(* Texts and their conversions *)

Digits == {"0", "1", "2", "3", "4", "5", "6", "7", "8", "9"}

DigitVal(c) ==
    CASE c = "0" -> 0 [] c = "1" -> 1 [] c = "2" -> 2 [] c = "3" -> 3 [] c = "4" -> 4
      [] c = "5" -> 5 [] c = "6" -> 6 [] c = "7" -> 7 [] c = "8" -> 8 [] c = "9" -> 9

DigitChar(i) ==
    CASE i = 0 -> "0" [] i = 1 -> "1" [] i = 2 -> "2" [] i = 3 -> "3" [] i = 4 -> "4"
      [] i = 5 -> "5" [] i = 6 -> "6" [] i = 7 -> "7" [] i = 8 -> "8" [] i = 9 -> "9"

\* \w of a regular expression, for the characters of the modelled texts
IsWordChar(c) ==
    c \in Digits \cup {"a", "b", "c", "e", "f", "i", "n", "t", "y", "I", "E", "_"}

IsWhiteSpace(c) == c = " "

\* The suffix of s from position i on (1-based).
From(s, i) == SubSeq(s, i, Len(s))

\* The number of leading characters of s that satisfy the test.
RECURSIVE SpanDigits(_)
SpanDigits(s) ==
    IF s # <<>> /\ Head(s) \in Digits THEN 1 + SpanDigits(Tail(s)) ELSE 0

RECURSIVE SpanSpace(_)
SpanSpace(s) ==
    IF s # <<>> /\ IsWhiteSpace(Head(s)) THEN 1 + SpanSpace(Tail(s)) ELSE 0

\* The value of a run of digits.
RECURSIVE DigitsValue(_)
DigitsValue(s) ==
    IF s = <<>> THEN 0 ELSE 10 * DigitsValue(SubSeq(s, 1, Len(s) - 1)) + DigitVal(s[Len(s)])

StartsWith(s, p) == Len(s) >= Len(p) /\ SubSeq(s, 1, Len(p)) = p

InfinityText == <<"I", "n", "f", "i", "n", "i", "t", "y">>

\* The sign of a numeric text and the text after it.
SignOf(s) == IF s # <<>> /\ Head(s) = "-" THEN -1 ELSE 1
AfterSign(s) == IF s # <<>> /\ Head(s) \in {"-", "+"} THEN Tail(s) ELSE s

\* The exponent part at the head of s ("e" or "E", an optional sign, digits):
\* its value, or 0 when s does not start with an exponent part.
ExponentOf(s) ==
    IF s # <<>> /\ Head(s) \in {"e", "E"} /\ SpanDigits(AfterSign(Tail(s))) > 0
    THEN LET r == AfterSign(Tail(s))
         IN  SignOf(Tail(s)) * DigitsValue(SubSeq(r, 1, SpanDigits(r)))
    ELSE 0

\* parseFloat(s): the longest prefix of the trimmed text that is a decimal
\* literal, NaN when there is none.
parseFloat(s) ==
    LET t == From(s, SpanSpace(s) + 1)
        sign == SignOf(t)
        u == AfterSign(t)
        ni == SpanDigits(u)
        v == From(u, ni + 1)
        nf == IF v # <<>> /\ Head(v) = "." THEN SpanDigits(Tail(v)) ELSE 0
        hasDot == v # <<>> /\ Head(v) = "." /\ (ni > 0 \/ nf > 0)
        w == IF hasDot THEN From(v, nf + 2) ELSE v
        mant == DigitsValue(SubSeq(u, 1, ni) \o (IF hasDot THEN SubSeq(v, 2, nf + 1) ELSE <<>>))
    IN  IF StartsWith(u, InfinityText) THEN Inf(sign)
        ELSE IF ni = 0 /\ nf = 0 THEN NaN
        ELSE Num(sign * mant, 1, ExponentOf(w) - (IF hasDot THEN nf ELSE 0))

\* parseInt(s): the leading run of digits of the trimmed text after an
\* optional sign, NaN when there is none.  (The term field is a number
\* field, whose text never carries the 0x prefix of a hexadecimal literal.)
parseInt(s) ==
    LET t == From(s, SpanSpace(s) + 1)
        u == AfterSign(t)
        ni == SpanDigits(u)
    IN  IF ni = 0 THEN NaN ELSE Num(SignOf(t) * DigitsValue(SubSeq(u, 1, ni)), 1, 0)

\* The integer a finite integral number stands for.
ToInt(x) == (x.n * Pow10(x.e)) \div x.d

\* s.replace(',', ''): only the first comma removed.
RECURSIVE StripFirstComma(_)
StripFirstComma(s) ==
    IF s = <<>> THEN <<>>
    ELSE IF Head(s) = "," THEN Tail(s)
    ELSE <<Head(s)>> \o StripFirstComma(Tail(s))

\* s.replace(/\D/g, ''): every character but the digits removed.
RECURSIVE StripNonDigits(_)
StripNonDigits(s) ==
    IF s = <<>> THEN <<>>
    ELSE IF Head(s) \in Digits THEN <<Head(s)>> \o StripNonDigits(Tail(s))
    ELSE StripNonDigits(Tail(s))

\* s.replace(/,/g, ''): every comma removed.
RECURSIVE StripCommas(_)
StripCommas(s) ==
    IF s = <<>> THEN <<>>
    ELSE IF Head(s) = "," THEN StripCommas(Tail(s))
    ELSE <<Head(s)>> \o StripCommas(Tail(s))

\* \B at the position after the first i characters of s: the characters on
\* its two sides are both word characters or both not (the ends of the text
\* count as not).
NotWordBoundary(s, i) ==
    (i > 0 /\ IsWordChar(s[i])) = (i < Len(s) /\ IsWordChar(s[i + 1]))

\* (?=(\d{3})+(?!\d)) at the position after the first i characters of s: the
\* run of digits that starts there has a length that is a positive multiple
\* of three.
GroupsOfThreeAhead(s, i) ==
    LET k == SpanDigits(From(s, i + 1)) IN k > 0 /\ k % 3 = 0

\* num.replace(/\B(?=(\d{3})+(?!\d))/g, ','): a comma inserted at every
\* position the pattern matches; positions are tested on the original text.
RECURSIVE InsertFrom(_, _)
InsertFrom(s, i) ==
    IF i > Len(s) THEN <<>>
    ELSE (IF NotWordBoundary(s, i) /\ GroupsOfThreeAhead(s, i) THEN <<",">> ELSE <<>>)
         \o (IF i < Len(s) THEN <<s[i + 1]>> ELSE <<>>)
         \o InsertFrom(s, i + 1)

formatNumber(num) == InsertFrom(num, 0)

-----------------------------------------------------------------------------
(* The component's state *)

VARIABLES
    loanAmount,       \* the stored text of the loan-amount field
    interestRate,     \* the text of the interest-rate field
    loanTermMonths,   \* the text of the term field
    schedule,         \* the sequence of PaymentScheduleItem
    monthlyPayment,
    totalInterest,
    totalAmount,
    effectPending,    \* the effect is scheduled and has not run yet
    typed,            \* history: e.target.value of the last loan-amount change
    prevLen           \* history: the schedule's length when the last pass began

vars == <<loanAmount, interestRate, loanTermMonths, schedule, monthlyPayment,
          totalInterest, totalAmount, effectPending, typed, prevLen>>

inputs == <<loanAmount, interestRate, loanTermMonths>>
outputs == <<schedule, monthlyPayment, totalInterest, totalAmount>>

\* What a change event of the loan-amount text field may carry: any text.
AmountTexts ==
    { <<>>, <<"0">>, <<"1", "0", "0", ",", "0", "0", "0">>, <<"-", "5">>, <<"a", "b", "c">>, <<"1", ".", "5">>,
      <<"1", "0", "0", "0">>, <<"1", ",", "0", "0", "0">>,
      <<"1", ",", "0", "0", "0", ",", "0", "0", "0">>,
      InfinityText }

\* What a change event of the interest-rate number field may carry: the
\* empty text or a valid floating-point number.
RateTexts ==
    { <<>>, <<"0">>, <<"1", "2">>, <<"6", "0", "0">>, <<"-", "1", "2">>,
      <<"1", "e", "3", "0", "8">>, <<"1", "e", "-", "2", "0">> }

\* What a change event of the term number field may carry.
TermTexts ==
    { <<>>, <<"-", "1">>, <<"2", ".", "5">> } \cup { <<DigitChar(i)>> : i \in 0..MaxMonths }

\* A dependency list that leaves the interest rate out.
EffectDepsWithoutRate == <<loanAmount, loanTermMonths>>

\* The dependency list of the effect.
EffectDeps == <<loanAmount, interestRate, loanTermMonths>>

-----------------------------------------------------------------------------
(* calculateLoan *)

\* A guard that tests only for falsy values, not for signs.
InvalidInputFalsyOnly(principal, annualRate, months) ==
    Falsy(principal) \/ Falsy(annualRate) \/ Falsy(months)

\* The guard of the early return.
InvalidInput(principal, annualRate, months) ==
    \/ Falsy(principal) \/ Falsy(annualRate) \/ Falsy(months)
    \/ Le(principal, Zero) \/ Lt(annualRate, Zero) \/ Le(months, Zero)

\* principal * (monthlyRate * pow(1 + monthlyRate, months)) / (pow(1 + monthlyRate, months) - 1)
MonthlyPaymentAmount(principal, monthlyRate, months) ==
    LET pw == Power(Add(FromInt(1), monthlyRate), months)
    IN  Div(Mul(principal, Mul(monthlyRate, pw)), Sub(pw, FromInt(1)))

\* An item whose monthlyPayment field holds the principal portion.
ScheduleItemPrincipalAsPayment(month, monthlyPaymentAmount, principalPayment, interestPayment, remainingBalance) ==
    [ month |-> month,
      monthlyPayment |-> principalPayment,
      principalPayment |-> principalPayment,
      interestPayment |-> interestPayment,
      remainingBalance |-> Max0(remainingBalance) ]

\* The item pushed for one month.
ScheduleItem(month, monthlyPaymentAmount, principalPayment, interestPayment, remainingBalance) ==
    [ month |-> month,
      monthlyPayment |-> monthlyPaymentAmount,
      principalPayment |-> principalPayment,
      interestPayment |-> interestPayment,
      remainingBalance |-> Max0(remainingBalance) ]

\* remainingBalance after the month's payment: forced to 0 in the last month.
NextBalance(month, months, remainingBalance, principalPayment) ==
    IF month = months THEN Zero ELSE Sub(remainingBalance, principalPayment)

\* An accumulation that leaves the last month's interest out.
NextInterestPaidSkipsLast(month, months, totalInterestPaid, interestPayment) ==
    IF month = months THEN totalInterestPaid ELSE Add(totalInterestPaid, interestPayment)

\* totalInterestPaid += interestPayment
NextInterestPaid(month, months, totalInterestPaid, interestPayment) ==
    Add(totalInterestPaid, interestPayment)

\* The loop over the months, from month on.
RECURSIVE ScheduleLoop(_, _, _, _, _, _, _)
ScheduleLoop(month, months, monthlyRate, monthlyPaymentAmount, remainingBalance, totalInterestPaid, newSchedule) ==
    IF month > months
    THEN [newSchedule |-> newSchedule, totalInterestPaid |-> totalInterestPaid]
    ELSE LET interestPayment == Mul(remainingBalance, monthlyRate)
             principalPayment == Sub(monthlyPaymentAmount, interestPayment)
             balance == NextBalance(month, months, remainingBalance, principalPayment)
         IN  ScheduleLoop(month + 1, months, monthlyRate, monthlyPaymentAmount, balance,
                          NextInterestPaid(month, months, totalInterestPaid, interestPayment),
                          Append(newSchedule,
                                 ScheduleItem(month, monthlyPaymentAmount, principalPayment,
                                              interestPayment, balance)))

\* The values the four setters receive when the guard lets the input pass.
LoanResult(principal, annualRate, months) ==
    LET monthlyRate == Div(annualRate, FromInt(12))
        monthlyPaymentAmount == MonthlyPaymentAmount(principal, monthlyRate, ToInt(months))
        loop == ScheduleLoop(1, ToInt(months), monthlyRate, monthlyPaymentAmount,
                             principal, Zero, <<>>)
    IN  [ schedule |-> loop.newSchedule,
          monthlyPayment |-> monthlyPaymentAmount,
          totalInterest |-> loop.totalInterestPaid,
          totalAmount |-> Add(principal, loop.totalInterestPaid) ]

\* The empty result of the early return.
EmptyResult ==
    [schedule |-> <<>>, monthlyPayment |-> Zero, totalInterest |-> Zero, totalAmount |-> Zero]

\* The three values calculateLoan parses from the fields.
Principal == parseFloat(loanAmount)
AnnualRate == Div(parseFloat(interestRate), FromInt(100))
Months == parseInt(loanTermMonths)

\* What one pass of calculateLoan over the current fields hands the setters.
CurrentResult ==
    IF InvalidInput(Principal, AnnualRate, Months)
    THEN EmptyResult
    ELSE LoanResult(Principal, AnnualRate, Months)

\* One pass of calculateLoan: the four setters.
calculateLoan ==
    /\ schedule' = CurrentResult.schedule
    /\ monthlyPayment' = CurrentResult.monthlyPayment
    /\ totalInterest' = CurrentResult.totalInterest
    /\ totalAmount' = CurrentResult.totalAmount

\* The render conditions of the three panels.
SummaryShown == Gt(monthlyPayment, Zero)
TableShown == Len(schedule) > 0
EmptyStateShown == ~(Len(schedule) > 0)

-----------------------------------------------------------------------------
(* The actions *)

\* The fields' initial texts.  The shipped defaults ('250000', '4.5', '360')
\* need a 360-month schedule at a monthly rate of 0.00375, whose exact
\* values are out of reach; they are scaled to '100000', '12' and '2'.
DefaultLoanAmount == <<"1", "0", "0", "0", "0", "0">>
DefaultInterestRate == <<"1", "2">>
DefaultLoanTermMonths == <<"2">>

\* The state after construction: the outputs are empty and the effect runs
\* once after mounting.
Init ==
    /\ loanAmount = DefaultLoanAmount
    /\ interestRate = DefaultInterestRate
    /\ loanTermMonths = DefaultLoanTermMonths
    /\ schedule = <<>>
    /\ monthlyPayment = Zero
    /\ totalInterest = Zero
    /\ totalAmount = Zero
    /\ effectPending = TRUE
    /\ typed = formatNumber(DefaultLoanAmount)
    /\ prevLen = 0

\* onChange of the loan-amount field, for a change event that carries one
\* of the given texts.
EditLoanAmountFrom(texts) ==
    /\ ~effectPending
    /\ \E value \in texts :
          /\ typed' = value
          /\ loanAmount' = StripCommas(value)
    /\ UNCHANGED <<interestRate, loanTermMonths, outputs, prevLen>>
    /\ effectPending' = (EffectDeps' # EffectDeps)

EditLoanAmount == EditLoanAmountFrom(AmountTexts)

\* onChange of the interest-rate field
EditInterestRate ==
    /\ ~effectPending
    /\ \E value \in RateTexts : interestRate' = value
    /\ UNCHANGED <<loanAmount, loanTermMonths, outputs, typed, prevLen>>
    /\ effectPending' = (EffectDeps' # EffectDeps)

\* onChange of the term field
EditLoanTermMonths ==
    /\ ~effectPending
    /\ \E value \in TermTexts : loanTermMonths' = value
    /\ UNCHANGED <<loanAmount, interestRate, outputs, typed, prevLen>>
    /\ effectPending' = (EffectDeps' # EffectDeps)

\* The effect: it runs after mounting and after every render in which a
\* dependency changed.
RunEffect ==
    /\ effectPending
    /\ calculateLoan
    /\ effectPending' = FALSE
    /\ prevLen' = Len(schedule)
    /\ UNCHANGED <<inputs, typed>>

Next == EditLoanAmount \/ EditInterestRate \/ EditLoanTermMonths \/ RunEffect

Spec == Init /\ [][Next]_vars

\* The loan-amount field alone, edited with every text of up to MaxTextLen
\* characters over a digit, the comma and a letter.
TextAlphabet == {"1", ",", "a"}

RECURSIVE TextsOfLen(_)
TextsOfLen(len) ==
    IF len = 0 THEN {<<>>}
    ELSE {Append(s, c) : s \in TextsOfLen(len - 1), c \in TextAlphabet}

EnumeratedTexts == UNION {TextsOfLen(len) : len \in 0..MaxTextLen}

EditLoanAmountText == EditLoanAmountFrom(EnumeratedTexts)

EditNext == EditLoanAmountText \/ RunEffect

EditSpec == Init /\ [][EditNext]_vars

-----------------------------------------------------------------------------
(* The claims *)

\* The last recomputation has run.
Idle == ~effectPending

Item(i) == schedule[i]

\* The term text is an integer of at least 1.
IntegerTerm ==
    IsFinite(Months) /\ Le(FromInt(1), Months) /\ parseFloat(loanTermMonths) = Months

\* C1: for every input with principal > 0, annual rate >= 0 (a rate of
\* exactly 0 included) and an integer term >= 1, the schedule has termMonths
\* items and its i-th item (0-based) has month i+1.
C1_ScheduleLengthIsTerm ==
    (Idle /\ Gt(Principal, Zero) /\ Le(Zero, parseFloat(interestRate)) /\ IntegerTerm)
        => /\ Len(schedule) = ToInt(Months)
           /\ \A i \in 1..Len(schedule) : Item(i).month = i

\* An input the claim C2 calls invalid: the principal is zero, negative or
\* not a number; the rate is negative or not a number; the term is zero,
\* negative or not a number.
C2_InvalidInput ==
    \/ IsNaN(Principal) \/ Le(Principal, Zero)
    \/ IsNaN(parseFloat(interestRate)) \/ Lt(parseFloat(interestRate), Zero)
    \/ IsNaN(Months) \/ Le(Months, Zero)

\* C2: whenever an input is invalid, calculateLoan sets the four outputs to
\* the empty result (schedule = [], monthlyPayment = 0, totalInterest = 0,
\* totalAmount = 0), whatever they held before.
C2_InvalidInputGivesEmptyResult ==
    (Idle /\ C2_InvalidInput)
        => /\ schedule = <<>>
           /\ monthlyPayment = Zero
           /\ totalInterest = Zero
           /\ totalAmount = Zero

\* An invalid input has been recomputed over outputs that held a schedule.
C2_Witness ==
    Idle /\ C2_InvalidInput /\ prevLen > 0 /\ schedule = <<>> /\ totalAmount = Zero

\* C3: in every non-empty schedule, remainingBalance is non-negative in
\* every item, never increases from one item to the next, and is 0 in the
\* last item.
C3_BalanceFallsToZero ==
    (Idle /\ schedule # <<>>)
        => /\ \A i \in 1..Len(schedule) : Le(Zero, Item(i).remainingBalance)
           /\ \A i \in 2..Len(schedule) :
                 Le(Item(i).remainingBalance, Item(i - 1).remainingBalance)
           /\ Item(Len(schedule)).remainingBalance = Zero

\* The sum of interestPayment over the first i items, added in item order.
RECURSIVE SumInterest(_)
SumInterest(i) ==
    IF i = 0 THEN Zero ELSE Add(SumInterest(i - 1), Item(i).interestPayment)

\* C4: after every run that produces a non-empty schedule, totalInterest
\* is the sum of interestPayment over the items and totalAmount is
\* principal + totalInterest.  (Equality is identity of values: a NaN total
\* counts as equal to a NaN sum.)
C4_TotalsAreSums ==
    (Idle /\ schedule # <<>>)
        => /\ totalInterest = SumInterest(Len(schedule))
           /\ totalAmount = Add(Principal, totalInterest)

\* A schedule of several months with a finite, positive interest total.
C4_Witness ==
    /\ Idle
    /\ Len(schedule) >= 2
    /\ IsFinite(totalInterest) /\ Gt(totalInterest, Zero)
    /\ IsFinite(totalAmount) /\ Gt(totalAmount, Principal)

\* C5: the monthlyPayment field is the same in all items of a schedule and
\* equals the monthlyPayment output of that computation.
C5_PaymentIsConstant ==
    Idle => /\ \A i \in 1..Len(schedule) : Item(i).monthlyPayment = monthlyPayment
            /\ \A i, j \in 1..Len(schedule) : Item(i).monthlyPayment = Item(j).monthlyPayment

\* A schedule of several months whose items differ in their principal part.
C5_Witness ==
    /\ Idle
    /\ Len(schedule) >= 2
    /\ IsFinite(monthlyPayment) /\ Gt(monthlyPayment, Zero)
    /\ Item(1).principalPayment # Item(2).principalPayment

\* C6: once the recomputation for the last edit has run, the four outputs
\* are those of one calculateLoan pass over the current three inputs:
\* nothing of an earlier computation survives.
C6_OutputsFollowInputs ==
    Idle => outputs = << CurrentResult.schedule, CurrentResult.monthlyPayment,
                         CurrentResult.totalInterest, CurrentResult.totalAmount >>

\* An edit from a valid to an invalid loan amount has been recomputed and
\* has left no schedule and no totals.
C6_Witness ==
    /\ Idle
    /\ prevLen > 0
    /\ loanAmount = <<>>
    /\ outputs = <<<<>>, Zero, Zero, Zero>>

\* C7: principal 1000 at 12 % over 1 month gives one item with month 1,
\* interestPayment 10, principalPayment = monthlyPayment - 10 and
\* remainingBalance 0; in general the first item's interestPayment is
\* principal * (annualRatePercent / 100 / 12) and each item's
\* principalPayment + interestPayment equals monthlyPayment.
C7_InterestAndPrincipalSplit ==
    Idle =>
        /\ (loanAmount = <<"1", "0", "0", "0">> /\ interestRate = <<"1", "2">>
                /\ loanTermMonths = <<"1">>)
               => /\ Len(schedule) = 1
                  /\ Item(1).month = 1
                  /\ Item(1).interestPayment = FromInt(10)
                  /\ Item(1).principalPayment = Sub(monthlyPayment, FromInt(10))
                  /\ Item(1).remainingBalance = Zero
        /\ schedule # <<>>
               => Item(1).interestPayment
                     = Mul(Principal, Div(Div(parseFloat(interestRate), FromInt(100)), FromInt(12)))
        /\ \A i \in 1..Len(schedule) :
               Add(Item(i).principalPayment, Item(i).interestPayment) = monthlyPayment

NoComma(s) == \A i \in 1..Len(s) : s[i] # ","

\* C8: after any sequence of edits to the loan-amount field, the stored
\* loanAmount holds no comma, and stripping the commas from its display
\* formatNumber(loanAmount) gives it back.
C8_StoredAmountHasNoComma ==
    /\ NoComma(loanAmount)
    /\ StripCommas(formatNumber(loanAmount)) = loanAmount

\* The field was edited with a text that holds a thousands separator, and
\* the display of the stored value holds one.
C8_Witness ==
    /\ typed = <<"1", ",", "1", "1", "1">>
    /\ loanAmount = <<"1", "1", "1", "1">>
    /\ formatNumber(loanAmount) = typed

DigitsOnly(s) == \A i \in 1..Len(s) : s[i] \in Digits

NotComma(c) == c # ","

\* C9 as stated: after any sequence of edits to the loan-amount field, the
\* stored loanAmount consists of digits only.
C9_StoredAmountIsDigitsOnly == DigitsOnly(loanAmount)

\* C9 as amended: the stored loanAmount is the text of the last edit with
\* its commas removed; it consists of digits only exactly when that text
\* held only digits and commas.
C9_StoredAmountIsTypedWithoutCommas ==
    /\ loanAmount = SelectSeq(typed, NotComma)
    /\ DigitsOnly(loanAmount) <=> (\A i \in 1..Len(typed) : typed[i] \in Digits \cup {","})

\* An edit whose text holds a comma and a letter: the letter is stored.
C9_Witness ==
    /\ typed = <<"1", ",", "a">>
    /\ loanAmount = <<"1", "a">>

\* C10: after every completed recomputation the schedule is non-empty
\* exactly when monthlyPayment > 0: the Payment Summary and the schedule
\* table are shown together or hidden together, and the empty-state message
\* appears exactly when the summary is hidden.
C10_PanelsAgree ==
    Idle => /\ (Len(schedule) > 0) <=> Gt(monthlyPayment, Zero)
            /\ TableShown <=> SummaryShown
            /\ EmptyStateShown <=> ~SummaryShown

=============================================================================
